---------------------------- MODULE Spec2Model ----------------------------
(***************************************************************************)
(* himalaya-cache (src/src/main.rs): the retrying invoker of the external  *)
(* agent (run_himalaya_with_retry), the read-side envelope listing         *)
(* (list_cached_envelopes) and the cache sync (run_sync).                  *)
(*                                                                         *)
(* Three specifications share the module's variables:                      *)
(*   SpecRetry  one call of run_himalaya_with_retry, attempt by attempt;   *)
(*   SpecList   list_cached_envelopes over a bounded metadata directory;   *)
(*   Spec       a session of sync runs over the cache directory.           *)
(***************************************************************************)
EXTENDS Integers, Sequences, FiniteSets, TLC

VARIABLES
    retry,       \* run_himalaya_with_retry: the locals of the call in progress
    attempts,    \* history: what each Command::output() of that call did
    metaDir,     \* list_cached_envelopes: the entries of meta/<account>/<folder>
    listing,     \* list_cached_envelopes: what the call printed or returned
    files,       \* the cache directory: path -> file
    run,         \* run_sync: its arguments, its locals and where it stands
    workers,     \* run_sync: the per-envelope workers of the folder in progress
    files0,      \* history: the cache directory when the run started
    forkFiles,   \* history: the cache directory when the workers were started
    log,         \* history of the run: agent calls, writes, warnings, lists obtained
    faults,      \* the failures that may still be injected
    runs         \* the sync runs that may still be started

retryVars == <<retry, attempts>>
listVars == <<metaDir, listing>>
syncVars == <<files, run, workers, files0, forkFiles, log, faults, runs>>
vars == <<retry, attempts, metaDir, listing, files, run, workers, files0, forkFiles,
          log, faults, runs>>

\* Option<T>: None is the empty sequence, Some(x) the one-element sequence.
None == <<>>
Some(x) == <<x>>
IsSome(o) == o # <<>>
Unwrap(o) == o[1]

\* A Result not yet produced.
Pending == [tag |-> "Pending"]

(***************************************************************************)
(* Strings and bytes.  A byte string is a sequence over Bytes; "#" stands  *)
(* for a byte that is not valid UTF-8.                                     *)
(***************************************************************************)
MaxStderrLen == 2

Bytes == {" ", "e", "#"}

RECURSIVE SeqsUpTo(_, _)
SeqsUpTo(S, n) ==
    IF n = 0 THEN {<<>>}
    ELSE LET shorter == SeqsUpTo(S, n - 1)
         IN  shorter \cup {Append(s, x) : s \in {t \in shorter : Len(t) = n - 1}, x \in S}

StderrValues == SeqsUpTo(Bytes, MaxStderrLen)

StdoutValues == {<<"o">>, <<"p">>}

\* String::from_utf8_lossy: an invalid byte becomes U+FFFD, written "?".
FromUtf8Lossy(bytes) ==
    [i \in 1..Len(bytes) |-> IF bytes[i] = "#" THEN "?" ELSE bytes[i]]

IsWhitespace(c) == c = " "

RECURSIVE TrimStart(_)
TrimStart(s) ==
    IF s # <<>> /\ IsWhitespace(Head(s)) THEN TrimStart(Tail(s)) ELSE s

RECURSIVE TrimEnd(_)
TrimEnd(s) ==
    IF s # <<>> /\ IsWhitespace(s[Len(s)])
    THEN TrimEnd(SubSeq(s, 1, Len(s) - 1))
    ELSE s

\* str::trim
Trim(s) == TrimEnd(TrimStart(s))

(***************************************************************************)
(* Envelopes and their dates.  Of an Envelope the model keeps the id, the  *)
(* flags and the date; subject, from, to and has_attachment travel with    *)
(* the record and decide nothing.  A date string is the record of the      *)
(* fields the pattern "%Y-%m-%d %H:%M%:z" would read from it, `fmt` saying *)
(* whether the text has that shape at all; `off` is the UTC offset in      *)
(* minutes.                                                                *)
(***************************************************************************)
DateStr(y, mo, d, h, mi, off) ==
    [fmt |-> TRUE, y |-> y, mo |-> mo, d |-> d, h |-> h, mi |-> mi, off |-> off]

\* A date in another format, such as "Mon, 1 Jan 2024 10:00:00 +0000".
OtherFormatDate ==
    [fmt |-> FALSE, y |-> 2024, mo |-> 1, d |-> 1, h |-> 10, mi |-> 0, off |-> 0]

Envelope(id, flags, date) == [id |-> id, flags |-> flags, date |-> date]

IsLeapYear(y) == (y % 4 = 0 /\ y % 100 # 0) \/ y % 400 = 0

DaysInMonth(y, mo) ==
    IF mo = 2 THEN (IF IsLeapYear(y) THEN 29 ELSE 28)
    ELSE IF mo \in {4, 6, 9, 11} THEN 30 ELSE 31

RECURSIVE DaysBeforeMonth(_, _)
DaysBeforeMonth(y, mo) ==
    IF mo <= 1 THEN 0 ELSE DaysBeforeMonth(y, mo - 1) + DaysInMonth(y, mo - 1)

\* Days from 0000-01-01 to y-01-01 in the proleptic Gregorian calendar.
DaysBeforeYear(y) ==
    365 * y + ((y + 3) \div 4) - ((y + 99) \div 100) + ((y + 399) \div 400)

\* DateTime::parse_from_str(value, "%Y-%m-%d %H:%M%:z").ok(): the instant in
\* minutes (UTC), which is what DateTime<FixedOffset> compares by.
ParseFromStr(s) ==
    IF /\ s.fmt
       /\ s.mo \in 1..12
       /\ s.d \in 1..DaysInMonth(s.y, s.mo)
       /\ s.h \in 0..23
       /\ s.mi \in 0..59
       /\ s.off \in -1439..1439
    THEN Some(((DaysBeforeYear(s.y) + DaysBeforeMonth(s.y, s.mo) + (s.d - 1)) * 24 + s.h)
                 * 60 + s.mi - s.off)
    ELSE None

\* parse_envelope_date
parse_envelope_date(envelope) ==
    IF envelope.date = None THEN None ELSE ParseFromStr(Unwrap(envelope.date))

\* Option<DateTime>::cmp: None is less than every Some.
CmpOption(a, b) ==
    IF a = None /\ b = None THEN 0
    ELSE IF a = None THEN -1
    ELSE IF b = None THEN 1
    ELSE IF Unwrap(a) < Unwrap(b) THEN -1
    ELSE IF Unwrap(a) > Unwrap(b) THEN 1
    ELSE 0

\* The closure given to sort_by.
CompareAscending(left, right) ==
    CmpOption(parse_envelope_date(left), parse_envelope_date(right))
Compare(left, right) ==
    CmpOption(parse_envelope_date(right), parse_envelope_date(left))

\* slice::sort_by is stable: an element goes before the first one it compares
\* Less than.
RECURSIVE InsertSorted(_, _)
InsertSorted(sorted, x) ==
    IF sorted = <<>> THEN <<x>>
    ELSE IF Compare(x, Head(sorted)) = -1 THEN <<x>> \o sorted
    ELSE <<Head(sorted)>> \o InsertSorted(Tail(sorted), x)

RECURSIVE SortBy(_)
SortBy(s) ==
    IF s = <<>> THEN <<>>
    ELSE InsertSorted(SortBy(SubSeq(s, 1, Len(s) - 1)), s[Len(s)])

(***************************************************************************)
(* list_cached_envelopes.  A directory is [exists, entries]; an entry is   *)
(* [name, ext, data], data being the Envelope the file parses as, or None  *)
(* when it does not parse.                                                 *)
(***************************************************************************)
DirEntry(name, ext, data) == [name |-> name, ext |-> ext, data |-> data]

\* The loop over read_dir, the entries coming in the order `order`.
RECURSIVE ReadEntries(_, _)
ReadEntries(order, acc) ==
    IF order = <<>> THEN [tag |-> "Ok", envelopes |-> acc]
    ELSE LET entry == Head(order)
         IN  IF entry.ext # "json" THEN ReadEntries(Tail(order), acc)
             ELSE IF entry.data = None
             THEN [tag |-> "Err", kind |-> "parse", path |-> entry.name]
             ELSE ReadEntries(Tail(order), Append(acc, Unwrap(entry.data)))

\* What list_cached_envelopes prints (Ok) or fails with (Err) when read_dir
\* yields the entries in the order `order`.
ListCachedEnvelopes(dir, order) ==
    IF ~dir.exists THEN [tag |-> "Err", kind |-> "read_dir", path |-> "meta"]
    ELSE LET read == ReadEntries(order, <<>>)
         IN  IF read.tag = "Err" THEN read
             ELSE [tag |-> "Ok", envelopes |-> SortBy(read.envelopes)]

\* The orders in which read_dir can yield the entries of a directory.
Orders(entries) ==
    {o \in [1..Cardinality(entries) -> entries] :
        \A i, j \in 1..Cardinality(entries) : i # j => o[i] # o[j]}

MaxEntries == 3

EntryNames == <<"1", "2", "3", "4", "5">>

DateChoices ==
    {None,
     Some(DateStr(2024, 1, 1, 10, 0, 0)),
     Some(DateStr(2024, 3, 5, 9, 0, 0)),
     Some(DateStr(2024, 1, 1, 12, 0, 300)),
     Some(DateStr(2024, 2, 30, 9, 0, 0)),
     Some(OtherFormatDate)}

\* What may lie under one name: a metadata file, a .json file that is no
\* Envelope, or a file of another type.
EntryChoices(name) ==
    {DirEntry(name, "json", Some(Envelope(name, "new", d))) : d \in DateChoices}
    \cup {DirEntry(name, "json", None), DirEntry(name, "tmp", None)}

Directories ==
    {[exists |-> FALSE, entries |-> {}]}
    \cup {[exists |-> TRUE, entries |-> {f[i] : i \in DOMAIN f}] :
            f \in UNION {{g \in [S -> UNION {EntryChoices(EntryNames[i]) : i \in S}] :
                            \A i \in S : g[i].name = EntryNames[i]} :
                           S \in SUBSET (1..MaxEntries)}}

ListEnvelopes ==
    /\ listing = Pending
    /\ \E order \in Orders(metaDir.entries) :
          listing' = ListCachedEnvelopes(metaDir, order)
    /\ UNCHANGED <<metaDir, retryVars, syncVars>>


(***************************************************************************)
(* run_himalaya_with_retry.                                                *)
(***************************************************************************)
MaxAttempts == 3
BackoffMillis == 2500

\* What one Command::new(..).output() can do: fail to launch, or run and
\* exit with status zero or not.
AttemptOutcomes ==
    {[exit |-> "launch", stdout |-> <<>>, stderr |-> <<>>]}
    \cup {[exit |-> "zero", stdout |-> o, stderr |-> <<>>] : o \in StdoutValues}
    \cup {[exit |-> "nonzero", stdout |-> <<>>, stderr |-> e] : e \in StderrValues}

RetryStart ==
    [pc |-> "invoke", attempt |-> 1, last_error |-> None,
     invocations |-> 0, slept |-> 0, ret |-> Pending]

NoRetry ==
    [pc |-> "off", attempt |-> 1, last_error |-> None,
     invocations |-> 0, slept |-> 0, ret |-> Pending]

\* `if attempt < 3` guarding the sleep.
SleepsAfterMutant(attempt) == attempt <= MaxAttempts
SleepsAfter(attempt) == attempt < MaxAttempts

\* The body of the loop for one attempt with outcome `out`, up to the sleep.
LoopBodyRetriesLaunch(st, out) ==
    LET called == [st EXCEPT !.invocations = @ + 1]
    IN  IF out.exit = "zero"
        THEN [called EXCEPT !.pc = "done",
                            !.ret = [tag |-> "Ok", stdout |-> out.stdout]]
        ELSE [called EXCEPT !.last_error = Some(FromUtf8Lossy(out.stderr)), !.pc = "sleep"]
LoopBodyIgnoresSuccess(st, out) ==
    LET called == [st EXCEPT !.invocations = @ + 1]
    IN  IF out.exit = "launch"
        THEN [called EXCEPT !.pc = "done",
                            !.ret = [tag |-> "Err", kind |-> "launch"]]
        ELSE IF out.exit = "zero" /\ st.attempt = MaxAttempts
        THEN [called EXCEPT !.pc = "done",
                            !.ret = [tag |-> "Ok", stdout |-> out.stdout]]
        ELSE [called EXCEPT !.last_error = Some(FromUtf8Lossy(out.stderr)), !.pc = "sleep"]
LoopBody(st, out) ==
    LET called == [st EXCEPT !.invocations = @ + 1]
    IN  IF out.exit = "launch"
        THEN [called EXCEPT !.pc = "done",
                            !.ret = [tag |-> "Err", kind |-> "launch"]]
        ELSE IF out.exit = "zero"
        THEN [called EXCEPT !.pc = "done",
                            !.ret = [tag |-> "Ok", stdout |-> out.stdout]]
        ELSE [called EXCEPT !.last_error = Some(FromUtf8Lossy(out.stderr)), !.pc = "sleep"]

\* The error built after the loop.
ExhaustedErrorUntrimmed(last_error) ==
    [tag |-> "Err", kind |-> "command",
     stderr |-> IF last_error = None THEN <<"unknown error">> ELSE Unwrap(last_error)]
ExhaustedError(last_error) ==
    [tag |-> "Err", kind |-> "command",
     stderr |-> IF last_error = None THEN <<"unknown error">> ELSE Trim(Unwrap(last_error))]

\* One Command::output() and what the loop body does with it.
Invoke ==
    /\ retry.pc = "invoke"
    /\ \E out \in AttemptOutcomes :
          /\ retry' = LoopBody(retry, out)
          /\ attempts' = Append(attempts, out)
    /\ UNCHANGED <<listVars, syncVars>>

\* The end of the loop body after a non-zero exit: the backoff when this was
\* not the last attempt, then the next attempt or the end of the loop.
AfterFailure ==
    /\ retry.pc = "sleep"
    /\ retry' = [retry EXCEPT
                   !.slept = IF SleepsAfter(retry.attempt) THEN @ + BackoffMillis ELSE @,
                   !.attempt = IF retry.attempt < MaxAttempts THEN @ + 1 ELSE @,
                   !.pc = IF retry.attempt < MaxAttempts THEN "invoke" ELSE "exhausted"]
    /\ UNCHANGED <<attempts, listVars, syncVars>>

\* After the loop: the error carrying the last stderr.
GiveUp ==
    /\ retry.pc = "exhausted"
    /\ retry' = [retry EXCEPT !.pc = "done", !.ret = ExhaustedError(retry.last_error)]
    /\ UNCHANGED <<attempts, listVars, syncVars>>

(***************************************************************************)
(* The cache directory.  A path is the tuple of its components under the   *)
(* cache root; distinct accounts, folders and ids are taken to name        *)
(* distinct files.  A file is None (absent) or Some of [whole, data]:      *)
(* `whole` is FALSE for the remains of a write that failed after the file  *)
(* was truncated.                                                          *)
(***************************************************************************)
Accounts == {"home", "work"}
Folders == {"INBOX", "Sent"}
Ids == {"1", "2"}

RootPath == <<"root">>
AccountsPath == <<"accounts.json">>
FoldersPath(account) == <<"folders", account>>
EnvelopesPath(account, folder) == <<"envelopes", account, folder>>
MetaPathSharedMutant(account, folder, id) == <<"meta", account, folder, "1">>
MetaPath(account, folder, id) == <<"meta", account, folder, id>>
MessagePath(account, folder, id) == <<"messages", account, folder, id>>

Paths ==
    {RootPath, AccountsPath}
    \cup {FoldersPath(a) : a \in Accounts}
    \cup {EnvelopesPath(a, f) : a \in Accounts, f \in Folders}
    \cup {MetaPath(a, f, i) : a \in Accounts, f \in Folders, i \in Ids}
    \cup {MessagePath(a, f, i) : a \in Accounts, f \in Folders, i \in Ids}

File(data) == [whole |-> TRUE, data |-> data]
Truncated(data) == [whole |-> FALSE, data |-> data]

\* Path::exists
Exists(fsys, path) == fsys[path] # None

EmptyCache == [p \in Paths |-> None]

\* What a write can do: succeed, fail leaving the file as it was, or fail
\* after fs::write truncated it.
WriteOutcomes == {"ok", "fail", "partial"}

\* The same for the list files (accounts.json, folders/, envelopes/): nothing
\* modelled reads them back, so the truncated remains are left out.
ListWriteOutcomes == {"ok", "fail"}

\* fs::create_dir_all(parent) then fs::write(path, payload), the file system
\* answering `outcome`.
WriteFileUnlinksOnError(fsys, path, payload, outcome) ==
    IF outcome = "ok"
    THEN [fsys EXCEPT ![path] = Some(File(payload)), ![RootPath] = Some(File("dir"))]
    ELSE [fsys EXCEPT ![path] = None]
WriteFile(fsys, path, payload, outcome) ==
    IF outcome = "ok"
    THEN [fsys EXCEPT ![path] = Some(File(payload)),
                      ![RootPath] = Some(File("dir"))]
    ELSE IF outcome = "partial"
    THEN [fsys EXCEPT ![path] = Some(Truncated(payload)),
                      ![RootPath] = Some(File("dir"))]
    ELSE fsys

\* write_json: the value as pretty-printed JSON.
write_json(fsys, path, value, outcome) == WriteFile(fsys, path, value, outcome)

\* write_bytes
write_bytes(fsys, path, payload, outcome) == WriteFile(fsys, path, payload, outcome)

WriteResult(outcome) ==
    IF outcome = "ok" THEN [tag |-> "Ok"] ELSE [tag |-> "Err", kind |-> "io"]

\* The directory meta/<account>/<folder> as list_cached_envelopes finds it: a
\* .json entry per metadata file; a truncated file does not parse.
MetaDirOf(fsys, account, folder) ==
    LET present == {i \in Ids : Exists(fsys, MetaPath(account, folder, i))}
    IN  [exists |-> present # {},
         entries |->
            {DirEntry(i, "json",
                      IF Unwrap(fsys[MetaPath(account, folder, i)]).whole
                      THEN Some(Unwrap(fsys[MetaPath(account, folder, i)]).data)
                      ELSE None) : i \in present}]

(***************************************************************************)
(* The external agent.  What the remote mail store holds during one sync   *)
(* run is one of two worlds; between runs it may change.  A call of        *)
(* run_himalaya_json or run_himalaya_raw is one step here: its outcome is  *)
(* "ok", or the error run_himalaya_with_retry ends with ("launch",         *)
(* "command"), or "decode" when the output is not the JSON expected.       *)
(***************************************************************************)
Worlds == {"w1", "w2"}

AccountList(w) == IF w = "w1" THEN <<"work", "home">> ELSE <<"home">>

FolderList(w, account) ==
    IF account = "home" /\ w = "w1" THEN <<"INBOX", "Sent">> ELSE <<"INBOX">>

Jan1 == Some(DateStr(2024, 1, 1, 10, 0, 0))
Mar5 == Some(DateStr(2024, 3, 5, 9, 0, 0))

\* In w2 home/INBOX has lost the id "1", the envelope "2" has changed, and the
\* agent lists the id "2" twice.
EnvelopeList(w, account, folder) ==
    IF account = "home" /\ folder = "INBOX"
    THEN IF w = "w1"
         THEN <<Envelope("1", "new", Jan1), Envelope("2", "new", None)>>
         ELSE <<Envelope("2", "seen", Mar5), Envelope("2", "new", Mar5)>>
    ELSE IF account = "home" /\ folder = "Sent"
    THEN <<Envelope("1", "new", Mar5)>>
    ELSE IF account = "work" /\ folder = "INBOX"
    THEN <<Envelope("1", "new", Jan1)>>
    ELSE <<>>

\* The raw message the agent prints for `message read <id>`.
MessageBody(w, account, folder, id) == <<w, account, folder, id>>

JsonOutcomes == {"ok", "launch", "command", "decode"}
RawOutcomes == {"ok", "launch", "command"}

\* run_himalaya_json
run_himalaya_json(outcome, value) ==
    IF outcome = "ok" THEN [tag |-> "Ok", value |-> value]
    ELSE [tag |-> "Err", kind |-> outcome]

\* run_himalaya_raw
run_himalaya_raw(outcome, stdout) ==
    IF outcome = "ok" THEN [tag |-> "Ok", value |-> stdout]
    ELSE [tag |-> "Err", kind |-> outcome]

\* The agent invocations, by their argument vectors.
AccountListCall == <<"account", "list">>
FolderListCall(account) == <<"folder", "list", account>>
EnvelopeListCall(account, folder) == <<"envelope", "list", account, folder>>
MessageReadCall(account, folder, id) == <<"message", "read", account, folder, id>>

(***************************************************************************)
(* run_sync.                                                               *)
(***************************************************************************)
MaxRuns == 2
MaxFaults == 1
MaxRunFaults == 3

\* A session is a number of sync runs and a number of failures that the file
\* system and the agent may answer with: several runs with few failures, or
\* one run with many.
Sessions ==
    {[runs |-> MaxRuns, faults |-> MaxFaults], [runs |-> 1, faults |-> MaxRunFaults]}
NoSession == [runs |-> 0, faults |-> 0]

\* An injected failure counts against the session's budget.
Cost(outcome) == IF outcome = "ok" THEN 0 ELSE 1

\* SyncArgs as given on the command line.
ArgChoices ==
    {[account |-> a, folder |-> f] :
        a \in {None, Some("home")}, f \in {None, Some("INBOX")}}

\* What the file system and the agent will answer one per-envelope worker:
\* everything succeeds, or the named step fails.
WorkerPlans ==
    {[meta |-> "ok", read |-> "ok", body |-> "ok"],
     [meta |-> "fail", read |-> "ok", body |-> "ok"],
     [meta |-> "partial", read |-> "ok", body |-> "ok"],
     [meta |-> "ok", read |-> "launch", body |-> "ok"],
     [meta |-> "ok", read |-> "command", body |-> "ok"],
     [meta |-> "ok", read |-> "ok", body |-> "fail"],
     [meta |-> "ok", read |-> "ok", body |-> "partial"]}

PlanCost(p) == Cost(p.meta) + Cost(p.read) + Cost(p.body)

RECURSIVE SumCost(_)
SumCost(plans) ==
    IF plans = <<>> THEN 0 ELSE PlanCost(Head(plans)) + SumCost(Tail(plans))

Worker(plan) == [pc |-> "meta", plan |-> plan, message_bytes |-> None]

NoRun ==
    [pc |-> "idle", args |-> [account |-> None, folder |-> None], world |-> "w1",
     result |-> Pending, account_names |-> <<>>, ai |-> 1,
     folder_names |-> <<>>, fi |-> 1, envelopes |-> <<>>, progress |-> 0]

\* `before` keeps the body-fetch warnings of the run before this one.
EmptyLog ==
    [calls |-> {}, writes |-> {}, warnings |-> {}, obtained |-> {}, completed |-> {},
     before |-> {}]

Done(r, result) == [r EXCEPT !.pc = "done", !.result = result]

Err(kind, context) == [tag |-> "Err", kind |-> kind, context |-> context]

\* The account and the folder the loops are at.
account_name == run.account_names[run.ai]
folder_name == run.folder_names[run.fi]

\* `args.folder.is_some() && args.account.is_none()`
ScopeAlwaysValid(a) == FALSE
InvalidScope(a) == a.folder # None /\ a.account = None

\* `match args.account.as_deref()` and `match args.folder.as_deref()`: Some.
AccountPinnedNever(a) == FALSE
AccountPinned(a) == a.account # None
FolderPinned(a) == a.folder # None

\* The Err arm of the body fetch: a warning and `return`; the cache is not
\* touched.
ReadErrorLeavesEmptyFile(fsys, path) == [fsys EXCEPT ![path] = Some(File(<<>>))]
AfterReadError(fsys, path) == fsys

\* Where the worker goes after a failed metadata write: `return`.
MetaErrorFallsThrough == "exists"
AfterMetaError == "done"

\* `if !message_path.exists()`
NeedsFetchAlways(fsys, path) == TRUE
NeedsFetchInverted(fsys, path) == Exists(fsys, path)
NeedsFetch(fsys, path) == ~Exists(fsys, path)

\* The Err arm of the account-list fetch: `return Err(err).context(..)`.
AccountListErrorIgnored(r, kind) == [r EXCEPT !.account_names = <<>>, !.ai = 1, !.pc = "account"]
AfterAccountListError(r, kind) == Done(r, Err(kind, <<"fetch account list">>))

\* The Err arm of the folder-list fetch: warn and `continue`.
FolderListErrorAborts(r, kind) == Done(r, Err(kind, <<"fetch folder list">>))
AfterFolderListError(r, kind) == [r EXCEPT !.ai = @ + 1]

\* The Err arm of the envelope-list fetch: warn and `continue`.
EnvelopeListErrorBreaks(r, kind) == [r EXCEPT !.fi = Len(r.folder_names) + 1]
EnvelopeListErrorAborts(r, kind) == Done(r, Err(kind, <<"fetch envelope list">>))
AfterEnvelopeListError(r, kind) == [r EXCEPT !.fi = @ + 1]

\* The `?` on the write of a list file.
AfterListWriteError(r, path) == Done(r, Err("io", path))

\* The body of the loop over the accounts once every folder is processed.
NextAccount(r) == [r EXCEPT !.ai = @ + 1, !.pc = "account"]

\* The end of the loop body for one folder.
SkipsRestOfAccount(r) == [r EXCEPT !.fi = Len(r.folder_names) + 1, !.pc = "folder"]
NextFolder(r) == [r EXCEPT !.fi = @ + 1, !.pc = "folder"]

\* A run of the command begins: `himalaya-cache sync [--account A] [--folder F]`.
StartSync ==
    /\ run.pc \in {"idle", "done"}
    /\ runs > 0
    /\ \E a \in ArgChoices, w \in Worlds :
          run' = [NoRun EXCEPT !.pc = "validate", !.args = a, !.world = w]
    /\ runs' = runs - 1
    /\ files0' = files
    /\ forkFiles' = files
    /\ log' = [EmptyLog EXCEPT
                 !.before = {w \in log.warnings : Len(w) = 5 /\ w[1] = "read"}]
    /\ workers' = <<>>
    /\ UNCHANGED <<files, faults, retryVars, listVars>>

\* The scope check that opens run_sync.
ValidateScope ==
    /\ run.pc = "validate"
    /\ run' = IF InvalidScope(run.args)
              THEN Done(run, Err("usage", <<"--folder requires --account">>))
              ELSE [run EXCEPT !.pc = "root"]
    /\ UNCHANGED <<files, files0, forkFiles, log, workers, faults, runs, retryVars, listVars>>

\* cache_dir() and fs::create_dir_all(&cache_dir).
CreateCacheDir ==
    /\ run.pc = "root"
    /\ \E outcome \in {"ok", "fail"} :
          /\ Cost(outcome) <= faults
          /\ faults' = faults - Cost(outcome)
          /\ IF outcome = "ok"
             THEN /\ files' = [files EXCEPT ![RootPath] = Some(File("dir"))]
                  /\ run' = [run EXCEPT !.pc = "accounts"]
             ELSE /\ files' = files
                  /\ run' = Done(run, Err("io", <<"create cache dir">>))
    /\ UNCHANGED <<files0, forkFiles, log, workers, runs, retryVars, listVars>>

\* `Some(account_name) => vec![account_name]`
AccountGiven ==
    /\ run.pc = "accounts"
    /\ AccountPinned(run.args)
    /\ run' = [run EXCEPT !.account_names = <<Unwrap(run.args.account)>>,
                          !.ai = 1, !.pc = "account"]
    /\ UNCHANGED <<files, files0, forkFiles, log, workers, faults, runs, retryVars, listVars>>

\* The account-list fetch fails: fatal.
AccountListFetchFails ==
    /\ run.pc = "accounts"
    /\ ~AccountPinned(run.args)
    /\ faults > 0
    /\ \E outcome \in JsonOutcomes \ {"ok"} :
          LET fetched == run_himalaya_json(outcome, AccountList(run.world))
          IN  run' = AfterAccountListError(run, fetched.kind)
    /\ faults' = faults - 1
    /\ log' = [log EXCEPT !.calls = @ \cup {AccountListCall}]
    /\ UNCHANGED <<files, files0, forkFiles, workers, runs, retryVars, listVars>>

\* The account list is fetched and written to accounts.json.
AccountListFetched ==
    /\ run.pc = "accounts"
    /\ ~AccountPinned(run.args)
    /\ \E outcome \in ListWriteOutcomes :
          LET fetched == run_himalaya_json("ok", AccountList(run.world))
          IN  /\ Cost(outcome) <= faults
              /\ faults' = faults - Cost(outcome)
              /\ files' = write_json(files, AccountsPath, fetched.value, outcome)
              /\ run' = IF outcome = "ok"
                        THEN [run EXCEPT !.account_names = fetched.value,
                                         !.ai = 1, !.pc = "account"]
                        ELSE AfterListWriteError(run, AccountsPath)
    /\ log' = [log EXCEPT !.calls = @ \cup {AccountListCall},
                          !.obtained = @ \cup {AccountListCall},
                          !.writes = @ \cup {AccountsPath}]
    /\ UNCHANGED <<files0, forkFiles, workers, runs, retryVars, listVars>>

\* The loop over the accounts has ended: Ok(()).
SyncCompleted ==
    /\ run.pc = "account"
    /\ run.ai > Len(run.account_names)
    /\ run' = Done(run, [tag |-> "Ok"])
    /\ UNCHANGED <<files, files0, forkFiles, log, workers, faults, runs, retryVars, listVars>>

\* `Some(folder_name) => vec![folder_name]`
FolderGiven ==
    /\ run.pc = "account"
    /\ run.ai <= Len(run.account_names)
    /\ FolderPinned(run.args)
    /\ run' = [run EXCEPT !.folder_names = <<Unwrap(run.args.folder)>>,
                          !.fi = 1, !.pc = "folder"]
    /\ UNCHANGED <<files, files0, forkFiles, log, workers, faults, runs, retryVars, listVars>>

\* The folder-list fetch of the account fails: a warning, then the next account.
FolderListFetchFails ==
    /\ run.pc = "account"
    /\ run.ai <= Len(run.account_names)
    /\ ~FolderPinned(run.args)
    /\ faults > 0
    /\ \E outcome \in JsonOutcomes \ {"ok"} :
          LET fetched == run_himalaya_json(outcome, FolderList(run.world, account_name))
          IN  /\ run' = AfterFolderListError(run, fetched.kind)
              /\ log' = [log EXCEPT
                           !.calls = @ \cup {FolderListCall(account_name)},
                           !.warnings = @ \cup {<<"folders", account_name, fetched.kind>>}]
    /\ faults' = faults - 1
    /\ UNCHANGED <<files, files0, forkFiles, workers, runs, retryVars, listVars>>

\* The folder list is fetched and written to folders/<account>.json.
FolderListFetched ==
    /\ run.pc = "account"
    /\ run.ai <= Len(run.account_names)
    /\ ~FolderPinned(run.args)
    /\ \E outcome \in ListWriteOutcomes :
          LET fetched == run_himalaya_json("ok", FolderList(run.world, account_name))
          IN  /\ Cost(outcome) <= faults
              /\ faults' = faults - Cost(outcome)
              /\ files' = write_json(files, FoldersPath(account_name), fetched.value, outcome)
              /\ run' = IF outcome = "ok"
                        THEN [run EXCEPT !.folder_names = fetched.value,
                                         !.fi = 1, !.pc = "folder"]
                        ELSE AfterListWriteError(run, FoldersPath(account_name))
    /\ log' = [log EXCEPT !.calls = @ \cup {FolderListCall(account_name)},
                          !.obtained = @ \cup {FolderListCall(account_name)},
                          !.writes = @ \cup {FoldersPath(account_name)}]
    /\ UNCHANGED <<files0, forkFiles, workers, runs, retryVars, listVars>>

\* The loop over the folders of the account has ended.
FoldersDone ==
    /\ run.pc = "folder"
    /\ run.fi > Len(run.folder_names)
    /\ run' = NextAccount(run)
    /\ UNCHANGED <<files, files0, forkFiles, log, workers, faults, runs, retryVars, listVars>>

\* The envelope-list fetch of the folder fails: a warning, then the next folder.
EnvelopeListFetchFails ==
    /\ run.pc = "folder"
    /\ run.fi <= Len(run.folder_names)
    /\ faults > 0
    /\ \E outcome \in JsonOutcomes \ {"ok"} :
          LET fetched == run_himalaya_json(outcome,
                            EnvelopeList(run.world, account_name, folder_name))
          IN  /\ run' = AfterEnvelopeListError(run, fetched.kind)
              /\ log' = [log EXCEPT
                           !.calls = @ \cup {EnvelopeListCall(account_name, folder_name)},
                           !.warnings = @ \cup
                              {<<"messages", account_name, folder_name, fetched.kind>>}]
    /\ faults' = faults - 1
    /\ UNCHANGED <<files, files0, forkFiles, workers, runs, retryVars, listVars>>

\* The envelope list is fetched and written to envelopes/<account>/<folder>.json;
\* then the per-envelope workers are handed their envelopes.
EnvelopeListFetched ==
    /\ run.pc = "folder"
    /\ run.fi <= Len(run.folder_names)
    /\ LET fetched == run_himalaya_json("ok",
                         EnvelopeList(run.world, account_name, folder_name))
           path == EnvelopesPath(account_name, folder_name)
           n == Len(fetched.value)
       IN  /\ log' = [log EXCEPT
                        !.calls = @ \cup {EnvelopeListCall(account_name, folder_name)},
                        !.obtained = @ \cup {EnvelopeListCall(account_name, folder_name)},
                        !.writes = @ \cup {path}]
           /\ \/ \E outcome \in ListWriteOutcomes \ {"ok"} :
                    /\ faults > 0
                    /\ faults' = faults - 1
                    /\ files' = write_json(files, path, fetched.value, outcome)
                    /\ run' = AfterListWriteError(run, path)
                    /\ workers' = <<>>
                    /\ forkFiles' = forkFiles
              \/ \E plans \in [1..n -> WorkerPlans] :
                    /\ SumCost(plans) <= faults
                    /\ faults' = faults - SumCost(plans)
                    /\ files' = write_json(files, path, fetched.value, "ok")
                    /\ run' = [run EXCEPT !.envelopes = fetched.value,
                                          !.progress = 0, !.pc = "workers"]
                    /\ workers' = [i \in 1..n |-> Worker(plans[i])]
                    /\ forkFiles' = files'
    /\ UNCHANGED <<files0, runs, retryVars, listVars>>

FirstWorkerDone == \E i \in DOMAIN workers : workers[i].pc = "done"
AllWorkersDone == \A i \in DOMAIN workers : workers[i].pc = "done"

\* A worker's closure starts: write_json(&meta_path, &envelope).
WriteMeta(i) ==
    /\ run.pc = "workers"
    /\ workers[i].pc = "meta"
    /\ LET envelope == run.envelopes[i]
           meta_path == MetaPath(account_name, folder_name, envelope.id)
           outcome == workers[i].plan.meta
       IN  /\ files' = write_json(files, meta_path, envelope, outcome)
           /\ IF outcome = "ok"
              THEN /\ workers' = [workers EXCEPT ![i].pc = "exists"]
                   /\ run' = run
                   /\ log' = [log EXCEPT !.writes = @ \cup {meta_path}]
              ELSE /\ workers' = [workers EXCEPT ![i].pc = AfterMetaError]
                   /\ run' = [run EXCEPT !.progress = @ + 1]
                   /\ log' = [log EXCEPT !.writes = @ \cup {meta_path},
                                         !.warnings = @ \cup {<<"meta", meta_path>>}]
    /\ UNCHANGED <<files0, forkFiles, faults, runs, retryVars, listVars>>

\* `if !message_path.exists()`
CheckExists(i) ==
    /\ run.pc = "workers"
    /\ workers[i].pc = "exists"
    /\ LET message_path == MessagePath(account_name, folder_name, run.envelopes[i].id)
       IN  IF NeedsFetch(files, message_path)
           THEN /\ workers' = [workers EXCEPT ![i].pc = "read"]
                /\ run' = run
           ELSE /\ workers' = [workers EXCEPT ![i].pc = "done"]
                /\ run' = [run EXCEPT !.progress = @ + 1]
    /\ UNCHANGED <<files, files0, forkFiles, log, faults, runs, retryVars, listVars>>

\* run_himalaya_raw(&["message", "read", id, ..])
ReadMessage(i) ==
    /\ run.pc = "workers"
    /\ workers[i].pc = "read"
    /\ LET id == run.envelopes[i].id
           fetched == run_himalaya_raw(workers[i].plan.read,
                         MessageBody(run.world, account_name, folder_name, id))
           call == MessageReadCall(account_name, folder_name, id)
       IN  IF fetched.tag = "Ok"
           THEN /\ workers' = [workers EXCEPT ![i].pc = "body",
                                              ![i].message_bytes = Some(fetched.value)]
                /\ run' = run
                /\ files' = files
                /\ log' = [log EXCEPT !.calls = @ \cup {call}]
           ELSE /\ workers' = [workers EXCEPT ![i].pc = "done"]
                /\ run' = [run EXCEPT !.progress = @ + 1]
                /\ files' = AfterReadError(files, MessagePath(account_name, folder_name, id))
                /\ log' = [log EXCEPT
                             !.calls = @ \cup {call},
                             !.warnings = @ \cup
                                {<<"read", account_name, folder_name, id, fetched.kind>>}]
    /\ UNCHANGED <<files0, forkFiles, faults, runs, retryVars, listVars>>

\* write_bytes(&message_path, &message_bytes), the end of the closure.
WriteMessage(i) ==
    /\ run.pc = "workers"
    /\ workers[i].pc = "body"
    /\ LET message_path == MessagePath(account_name, folder_name, run.envelopes[i].id)
           outcome == workers[i].plan.body
       IN  /\ files' = write_bytes(files, message_path,
                                   Unwrap(workers[i].message_bytes), outcome)
           /\ log' = [log EXCEPT
                        !.writes = @ \cup {message_path},
                        !.warnings = IF outcome = "ok" THEN @
                                     ELSE @ \cup {<<"write", message_path>>}]
    /\ workers' = [workers EXCEPT ![i].pc = "done"]
    /\ run' = [run EXCEPT !.progress = @ + 1]
    /\ UNCHANGED <<files0, forkFiles, faults, runs, retryVars, listVars>>

\* for_each returns once every worker has: progress.finish_with_message and
\* the next folder.
JoinWorkers ==
    /\ run.pc = "workers"
    /\ AllWorkersDone
    /\ run' = NextFolder(run)
    /\ log' = [log EXCEPT !.completed = @ \cup {<<account_name, folder_name, run.progress>>}]
    /\ workers' = <<>>
    /\ UNCHANGED <<files, files0, forkFiles, faults, runs, retryVars, listVars>>

WorkerStep ==
    \E i \in DOMAIN workers :
        WriteMeta(i) \/ CheckExists(i) \/ ReadMessage(i) \/ WriteMessage(i)

\* The closure of for_each as one function of the cache: what one envelope's
\* worker leaves behind when it runs alone from `fsys`.
ProcessEnvelope(fsys, w, account, folder, envelope, plan) ==
    LET afterMeta == write_json(fsys, MetaPath(account, folder, envelope.id),
                                envelope, plan.meta)
        message_path == MessagePath(account, folder, envelope.id)
    IN  IF plan.meta # "ok" THEN afterMeta
        ELSE IF ~NeedsFetch(afterMeta, message_path) THEN afterMeta
        ELSE IF plan.read # "ok" THEN AfterReadError(afterMeta, message_path)
        ELSE write_bytes(afterMeta, message_path,
                         MessageBody(w, account, folder, envelope.id), plan.body)

\* The workers run one after the other in the order `order`.
RECURSIVE ProcessInOrder(_, _, _, _, _, _)
ProcessInOrder(fsys, w, account, folder, order, ws) ==
    IF order = <<>> THEN fsys
    ELSE ProcessInOrder(
            ProcessEnvelope(fsys, w, account, folder,
                            run.envelopes[Head(order)], ws[Head(order)].plan),
            w, account, folder, Tail(order), ws)


(***************************************************************************)
(* The specifications.                                                     *)
(***************************************************************************)
InitSync(session) ==
    /\ files = EmptyCache
    /\ files0 = EmptyCache
    /\ forkFiles = EmptyCache
    /\ run = NoRun
    /\ workers = <<>>
    /\ log = EmptyLog
    /\ faults = session.faults
    /\ runs = session.runs

InitRetry ==
    /\ retry = RetryStart
    /\ attempts = <<>>
    /\ metaDir = [exists |-> FALSE, entries |-> {}]
    /\ listing = Pending
    /\ InitSync(NoSession)

NextRetry == Invoke \/ AfterFailure \/ GiveUp

SpecRetry == InitRetry /\ [][NextRetry]_vars

InitList ==
    /\ metaDir \in Directories
    /\ listing = Pending
    /\ retry = NoRetry
    /\ attempts = <<>>
    /\ InitSync(NoSession)

NextList == ListEnvelopes

SpecList == InitList /\ [][NextList]_vars

Init ==
    /\ \E session \in Sessions : InitSync(session)
    /\ retry = NoRetry
    /\ attempts = <<>>
    /\ metaDir = [exists |-> FALSE, entries |-> {}]
    /\ listing = Pending

\* The steps of a run in progress.
RunStep ==
    \/ ValidateScope
    \/ CreateCacheDir
    \/ AccountGiven
    \/ AccountListFetchFails
    \/ AccountListFetched
    \/ SyncCompleted
    \/ FolderGiven
    \/ FolderListFetchFails
    \/ FolderListFetched
    \/ FoldersDone
    \/ EnvelopeListFetchFails
    \/ EnvelopeListFetched
    \/ WorkerStep
    \/ JoinWorkers

Next ==
    \/ StartSync
    \/ ValidateScope
    \/ CreateCacheDir
    \/ AccountGiven
    \/ AccountListFetchFails
    \/ AccountListFetched
    \/ SyncCompleted
    \/ FolderGiven
    \/ FolderListFetchFails
    \/ FolderListFetched
    \/ FoldersDone
    \/ EnvelopeListFetchFails
    \/ EnvelopeListFetched
    \/ WorkerStep
    \/ JoinWorkers

Spec == Init /\ [][Next]_vars

(***************************************************************************)
(* Properties of run_himalaya_with_retry, checked under SpecRetry.         *)
(***************************************************************************)
\* The backoff delays taken so far.
Delays == retry.slept \div BackoffMillis

NonZeroBefore(k) == \A i \in 1..(k - 1) : attempts[i].exit = "nonzero"

\* t is s without its leading and trailing whitespace.
IsTrimOf(t, s) ==
    /\ t = <<>> \/ (~IsWhitespace(t[1]) /\ ~IsWhitespace(t[Len(t)]))
    /\ \E i \in 0..Len(s) :
          /\ i + Len(t) <= Len(s)
          /\ SubSeq(s, i + 1, i + Len(t)) = t
          /\ \A j \in (1..i) \cup ((i + Len(t) + 1)..Len(s)) : IsWhitespace(s[j])

\* C5: when every attempt exits non-zero, the call ends after exactly 3
\* invocations and exactly 2 backoff delays (none after the third failure) with
\* the command error carrying the trimmed stderr of the third attempt.
C5_RetryExhaustion ==
    (retry.pc \in {"exhausted", "done"} /\ NonZeroBefore(Len(attempts) + 1)) =>
        /\ Len(attempts) = 3
        /\ retry.invocations = 3
        /\ Delays = 2
        /\ retry.slept = 2 * 2500
        /\ retry.pc = "done" =>
              /\ retry.ret.tag = "Err"
              /\ retry.ret.kind = "command"
              /\ IsTrimOf(retry.ret.stderr, FromUtf8Lossy(attempts[3].stderr))

\* C5 witness: three failures whose stderr differ, the last one with
\* whitespace to trim.
C5_Witness ==
    /\ retry.pc = "done"
    /\ Len(attempts) = 3
    /\ NonZeroBefore(4)
    /\ attempts[1].stderr = <<"e", "e">>
    /\ attempts[2].stderr = <<>>
    /\ attempts[3].stderr = <<" ", "e">>
    /\ retry.ret.stderr = <<"e">>

\* C6: the first attempt k that exits zero is the last invocation: the call
\* has returned that attempt's output after k invocations and k-1 delays.
C6_StopsAtFirstSuccess ==
    \A k \in 1..Len(attempts) :
        (attempts[k].exit = "zero" /\ NonZeroBefore(k)) =>
            /\ k \in 1..3
            /\ Len(attempts) = k
            /\ retry.pc = "done"
            /\ retry.ret = [tag |-> "Ok", stdout |-> attempts[k].stdout]
            /\ retry.invocations = k
            /\ Delays = k - 1

\* C6 witness: success on the third attempt, after two failures.
C6_Witness ==
    /\ Len(attempts) = 3
    /\ attempts[3].exit = "zero"
    /\ retry.ret.tag = "Ok"
    /\ Delays = 2

\* C10 as stated: a launch error is returned after exactly one invocation and
\* no backoff delay.
C10_Original ==
    (retry.pc = "done" /\ retry.ret.tag = "Err" /\ retry.ret.kind = "launch") =>
        (retry.invocations = 1 /\ Delays = 0)

\* C10 amended: a launch failure is never retried.  The attempt k that fails
\* to launch is the last invocation, the call has returned the launch error,
\* and no delay follows it: k invocations and k-1 delays, which is one
\* invocation and no delay when the first launch fails.
C10_LaunchFailureNotRetried ==
    \A k \in 1..Len(attempts) :
        attempts[k].exit = "launch" =>
            /\ Len(attempts) = k
            /\ retry.pc = "done"
            /\ retry.ret = [tag |-> "Err", kind |-> "launch"]
            /\ retry.invocations = k
            /\ Delays = k - 1
            /\ NonZeroBefore(k)

\* C10 witness: the second launch fails, after one failed run and one delay.
C10_Witness ==
    /\ Len(attempts) = 2
    /\ attempts[1].exit = "nonzero"
    /\ attempts[2].exit = "launch"
    /\ retry.pc = "done"
    /\ retry.ret.kind = "launch"
    /\ retry.invocations = 2
    /\ retry.slept = 2500

(***************************************************************************)
(* Properties of list_cached_envelopes, checked under SpecList.            *)
(***************************************************************************)
MetadataFiles == {e \in metaDir.entries : e.ext = "json"}

HasParsableDate(envelope) == parse_envelope_date(envelope) # None

Range(seq) == {seq[i] : i \in DOMAIN seq}

DistinctIds(envs) == \A i, j \in DOMAIN envs : i # j => envs[i].id # envs[j].id

\* The run was asked for a folder without an account.
FolderWithoutAccount == run.args.folder # None /\ run.args.account = None

\* The files of one account.
PathsOf(account) == {p \in Paths : Len(p) >= 2 /\ p[2] = account}

\* The warnings of the run that concern one envelope id of a folder.
ItemWarnings(account, folder, id) ==
    {<<"meta", MetaPath(account, folder, id)>>,
     <<"write", MessagePath(account, folder, id)>>}
    \cup {<<"read", account, folder, id, kind>> : kind \in RawOutcomes}

\* The warnings of the run that concern one account.
AccountWarnings(account) ==
    {<<"folders", account, kind>> : kind \in JsonOutcomes}
    \cup {<<"messages", account, f, kind>> : f \in Folders, kind \in JsonOutcomes}
    \cup UNION {ItemWarnings(account, f, i) : f \in Folders, i \in Ids}

\* C1: a message body file that exists when a sync starts is never re-fetched
\* and never written by that sync: no `message read` for it, no write to its
\* path, and its content stays what it was.
C1_CachedBodyUntouched ==
    \A a \in Accounts, f \in Folders, i \in Ids :
        Exists(files0, MessagePath(a, f, i)) =>
            /\ MessageReadCall(a, f, i) \notin log.calls
            /\ MessagePath(a, f, i) \notin log.writes
            /\ files[MessagePath(a, f, i)] = files0[MessagePath(a, f, i)]

\* C1 witness: a second sync, against a changed remote, has processed the
\* envelope "2" of home/INBOX whose body an earlier sync cached.
C1_Witness ==
    /\ run.pc = "done"
    /\ run.result.tag = "Ok"
    /\ run.world = "w2"
    /\ files0[MessagePath("home", "INBOX", "2")]
          = Some(File(MessageBody("w1", "home", "INBOX", "2")))
    /\ <<"home", "INBOX", 2>> \in log.completed
    /\ MetaPath("home", "INBOX", "2") \in log.writes
    /\ files[MessagePath("home", "INBOX", "2")]
          = Some(File(MessageBody("w1", "home", "INBOX", "2")))

\* C2: for a folder whose envelope list has pairwise distinct ids and for
\* fixed outcomes per envelope, the cache the parallel workers leave, however
\* their steps interleave, is the one that running them one after the other
\* leaves, in whatever order.
C2_OrderIndependent ==
    (run.pc = "workers" /\ AllWorkersDone /\ DistinctIds(run.envelopes)) =>
        \A order \in Orders(DOMAIN workers) :
            files = ProcessInOrder(forkFiles, run.world, account_name, folder_name,
                                   order, workers)

\* C2 witness: the two workers of home/INBOX have both written metadata and
\* body.
C2_Witness ==
    /\ run.pc = "workers"
    /\ AllWorkersDone
    /\ Len(run.envelopes) = 2
    /\ DistinctIds(run.envelopes)
    /\ \A i \in {"1", "2"} :
          /\ ~Exists(forkFiles, MetaPath("home", "INBOX", i))
          /\ ~Exists(forkFiles, MessagePath("home", "INBOX", i))
          /\ Exists(files, MetaPath("home", "INBOX", i))
          /\ Exists(files, MessagePath("home", "INBOX", i))

\* Everything the sync writes for one account is in the cache, as fetched.
FullySynced(a) ==
    /\ files[FoldersPath(a)] = Some(File(FolderList(run.world, a)))
    /\ \A f \in Range(FolderList(run.world, a)) :
          LET envs == EnvelopeList(run.world, a, f)
          IN  /\ files[EnvelopesPath(a, f)] = Some(File(envs))
              /\ \A k \in DOMAIN envs :
                    /\ files[MetaPath(a, f, envs[k].id)]
                          \in {Some(File(envs[j])) : j \in {n \in DOMAIN envs : envs[n].id = envs[k].id}}
                    /\ files[MessagePath(a, f, envs[k].id)] =
                          IF Exists(files0, MessagePath(a, f, envs[k].id))
                          THEN files0[MessagePath(a, f, envs[k].id)]
                          ELSE Some(File(MessageBody(run.world, a, f, envs[k].id)))

\* C3: when the folder-list fetch of an account fails, the account gets a
\* warning and nothing else: none of its files is touched and the loop goes on
\* to the next account; at the end of the run every other account that met no
\* failure of its own is synced completely.
C3_FolderListFailureIsolated ==
    \A k \in DOMAIN run.account_names :
        LET b == run.account_names[k]
        IN  (\E kind \in JsonOutcomes : <<"folders", b, kind>> \in log.warnings) =>
                /\ run.ai > k
                /\ \A p \in PathsOf(b) : files[p] = files0[p]
                /\ (run.pc = "done" /\ run.result.tag = "Ok") =>
                      \A a \in Range(run.account_names) \ {b} :
                          (log.warnings \cap AccountWarnings(a) = {}) => FullySynced(a)

\* C3 witness: the folder-list fetch failed for "work", and "home" has been
\* synced completely into a cache that was empty.
C3_Witness ==
    /\ run.pc = "done"
    /\ run.result.tag = "Ok"
    /\ run.account_names = <<"work", "home">>
    /\ <<"folders", "work", "command">> \in log.warnings
    /\ files0 = EmptyCache
    /\ FullySynced("home")
    /\ Exists(files, MessagePath("home", "Sent", "1"))

\* C4: a sync asked for a folder without an account ends at once with the
\* usage error: no agent invocation, no write, no cache root created.
C4_ScopeValidatedFirst ==
    (FolderWithoutAccount /\ run.pc \notin {"idle", "validate"}) =>
        /\ run.pc = "done"
        /\ run.result.tag = "Err"
        /\ run.result.kind = "usage"
        /\ log.calls = {}
        /\ log.writes = {}
        /\ files = files0
        /\ ~Exists(files0, RootPath) => ~Exists(files, RootPath)

\* C4 witness: the first run ever is refused and leaves no cache root.
C4_Witness ==
    /\ FolderWithoutAccount
    /\ run.pc = "done"
    /\ run.result.kind = "usage"
    /\ files0 = EmptyCache
    /\ ~Exists(files, RootPath)

\* The envelope ids of the snapshot file of a folder.
SnapshotIds(a, f) ==
    LET snapshot == Unwrap(files[EnvelopesPath(a, f)]).data
    IN  {snapshot[k].id : k \in DOMAIN snapshot}

\* C7 as stated: after a successful full sync the body file exists for every
\* id of every envelopes/A/F.json whose body fetch did not fail.
C7_Original ==
    (run.pc = "done" /\ run.result.tag = "Ok" /\ run.args.account = None) =>
        \A a \in Accounts, f \in Folders :
            Exists(files, EnvelopesPath(a, f)) =>
                \A i \in SnapshotIds(a, f) :
                    (\A kind \in RawOutcomes : <<"read", a, f, i, kind>> \notin log.warnings)
                        => Exists(files, MessagePath(a, f, i))

\* C7 amended: after a successful full sync, for every folder whose envelope
\* list this sync fetched, envelopes/A/F.json holds that list and the body file
\* exists for every id of it for which neither the metadata write nor the body
\* fetch nor the body write failed.
C7_BodiesOfFetchedLists ==
    (run.pc = "done" /\ run.result.tag = "Ok" /\ run.args.account = None) =>
        \A a \in Accounts, f \in Folders :
            EnvelopeListCall(a, f) \in log.obtained =>
                /\ files[EnvelopesPath(a, f)] = Some(File(EnvelopeList(run.world, a, f)))
                /\ \A i \in SnapshotIds(a, f) :
                      (log.warnings \cap ItemWarnings(a, f, i) = {})
                          => Exists(files, MessagePath(a, f, i))

\* C7 witness: a full sync into an empty cache in which the body fetch of
\* home/INBOX "1" failed: "2" has its body file, "1" has none.
C7_Witness ==
    /\ run.pc = "done"
    /\ run.result.tag = "Ok"
    /\ run.args.account = None
    /\ files0 = EmptyCache
    /\ <<"read", "home", "INBOX", "1", "command">> \in log.warnings
    /\ SnapshotIds("home", "INBOX") = {"1", "2"}
    /\ ~Exists(files, MessagePath("home", "INBOX", "1"))
    /\ Exists(files, MessagePath("home", "INBOX", "2"))

\* Every folder of every account whose folder list was obtained (or whose folder
\* was given) has had its envelope list asked for, and every envelope of every
\* list obtained has been through its worker.
AllDiscoveredWorkAttempted ==
    /\ \A a \in Range(run.account_names) :
          IF run.args.folder # None
          THEN EnvelopeListCall(a, Unwrap(run.args.folder)) \in log.calls
          ELSE FolderListCall(a) \in log.calls
    /\ \A a \in Accounts :
          FolderListCall(a) \in log.obtained =>
              \A f \in Range(FolderList(run.world, a)) : EnvelopeListCall(a, f) \in log.calls
    /\ \A a \in Accounts, f \in Folders :
          EnvelopeListCall(a, f) \in log.obtained =>
              <<a, f, Len(EnvelopeList(run.world, a, f))>> \in log.completed

AccountSetResolved == run.account_names # <<>>

WorkerRank(w) ==
    IF w.pc = "meta" THEN 0
    ELSE IF w.pc = "exists" THEN 1
    ELSE IF w.pc = "read" THEN 2
    ELSE IF w.pc = "body" THEN 3
    ELSE 4

RECURSIVE SumRank(_)
SumRank(ws) == IF ws = <<>> THEN 0 ELSE WorkerRank(Head(ws)) + SumRank(Tail(ws))

Rank ==
    IF run.pc \in {"idle", "validate"} THEN 0
    ELSE IF run.pc = "root" THEN 1
    ELSE IF run.pc = "accounts" THEN 2
    ELSE IF run.pc = "account" THEN 100 * run.ai
    ELSE IF run.pc = "folder" THEN 100 * run.ai + 20 * run.fi
    ELSE IF run.pc = "workers" THEN 100 * run.ai + 20 * run.fi + 1 + SumRank(workers)
    ELSE 1000

ListFetchWarnings(kind) ==
    {<<"folders", a, kind>> : a \in Accounts}
    \cup {<<"messages", a, f, kind>> : a \in Accounts, f \in Folders}

BodyFetchWarnings(kind) ==
    {<<"read", a, f, i, kind>> : a \in Accounts, f \in Folders, i \in Ids}

\* C11 as stated: a run in which the agent could not be launched, in whatever
\* fetch, ends with an error.
C11_Original ==
    (/\ run.pc = "done"
     /\ log.warnings \cap (ListFetchWarnings("launch") \cup BodyFetchWarnings("launch")) # {})
        => run.result.tag = "Err"

\* C12 as stated: a run in which a folder-list or envelope-list response did
\* not decode ends with an error.
C12_Original ==
    (run.pc = "done" /\ log.warnings \cap ListFetchWarnings("decode") # {})
        => run.result.tag = "Err"

\* The failures that are not per-account, per-folder or per-envelope ones: a
\* bad scope, the cache root, the account list, and the list files.
FatalContexts ==
    {<<"--folder requires --account">>, <<"create cache dir">>,
     <<"fetch account list">>, AccountsPath}
    \cup {FoldersPath(a) : a \in Accounts}
    \cup {EnvelopesPath(a, f) : a \in Accounts, f \in Folders}

\* C13: a run ends Ok unless it met a failure other than a failed folder-list
\* or envelope-list fetch, a failed metadata write, or a failed body fetch or
\* body write; however many of those it met.
C13_RecoverableFailuresEndOk ==
    run.pc = "done" =>
        \/ run.result.tag = "Ok"
        \/ run.result.tag = "Err" /\ run.result.context \in FatalContexts

\* C13 witness: one run has met a failed folder-list fetch, a failed metadata
\* write and a failed body write, and has ended Ok.
C13_Witness ==
    /\ run.pc = "done"
    /\ run.result.tag = "Ok"
    /\ {<<"folders", "work", "command">>,
        <<"meta", MetaPath("home", "INBOX", "1")>>,
        <<"write", MessagePath("home", "INBOX", "2")>>} \subseteq log.warnings

\* The account-list fetch of the run has failed.
AccountListFetchFailed ==
    /\ run.pc \notin {"idle", "validate", "root", "accounts"}
    /\ AccountListCall \in log.calls
    /\ AccountListCall \notin log.obtained

\* C14: an unscoped sync whose account-list fetch fails has ended with that
\* error; the account-list invocation is the only one made, nothing was
\* written, and but for the cache root the cache is as the run found it.
C14_AccountListFailureAborts ==
    AccountListFetchFailed =>
        /\ run.args.account = None
        /\ run.pc = "done"
        /\ run.result.tag = "Err"
        /\ run.result.kind \in JsonOutcomes \ {"ok"}
        /\ run.result.context = <<"fetch account list">>
        /\ log.calls = {AccountListCall}
        /\ log.writes = {}
        /\ \A p \in Paths \ {RootPath} : files[p] = files0[p]

\* C14 witness: the account-list fetch of a later sync has failed; the
\* accounts.json of the earlier sync is still there.
C14_Witness ==
    /\ AccountListFetchFailed
    /\ run.pc = "done"
    /\ Exists(files0, AccountsPath)
    /\ files[AccountsPath] = files0[AccountsPath]
    /\ Exists(files0, MessagePath("home", "INBOX", "1"))

\* C15: a sync scoped to an account makes no `account list` invocation and
\* no write of accounts.json; scoped to a folder as well, it makes no `folder
\* list` invocation and no write of a folders/<account>.json either.
C15_PinnedListsUntouched ==
    /\ run.args.account # None =>
          /\ AccountListCall \notin log.calls
          /\ AccountsPath \notin log.writes
          /\ files[AccountsPath] = files0[AccountsPath]
    /\ (run.args.account # None /\ run.args.folder # None) =>
          \A a \in Accounts :
              /\ FolderListCall(a) \notin log.calls
              /\ FoldersPath(a) \notin log.writes
              /\ files[FoldersPath(a)] = files0[FoldersPath(a)]

\* C15 witness: a sync scoped to home/INBOX has completed over a cache that
\* held both lists, and has written the folder's snapshot.
C15_Witness ==
    /\ run.args = [account |-> Some("home"), folder |-> Some("INBOX")]
    /\ run.pc = "done"
    /\ run.result.tag = "Ok"
    /\ Exists(files0, AccountsPath)
    /\ Exists(files0, FoldersPath("home"))
    /\ EnvelopesPath("home", "INBOX") \in log.writes
    /\ files[AccountsPath] = files0[AccountsPath]
    /\ files[FoldersPath("home")] = files0[FoldersPath("home")]

\* The workers of the folder in progress whose metadata write has failed.
MetaFailed == {i \in DOMAIN workers : workers[i].pc = "done" /\ workers[i].plan.meta # "ok"}

\* No body step for the id of envelope i in this pass.
BodyStepSkipped(i) ==
    LET id == run.envelopes[i].id
        message_path == MessagePath(account_name, folder_name, id)
    IN  /\ MessageReadCall(account_name, folder_name, id) \notin log.calls
        /\ message_path \notin log.writes
        /\ files[message_path] = forkFiles[message_path]

\* Envelope j has its metadata and its body as its own worker, run alone from
\* the cache the pass started with, leaves them.
ProcessedAsAlone(j) ==
    LET id == run.envelopes[j].id
        meta_path == MetaPath(account_name, folder_name, id)
        message_path == MessagePath(account_name, folder_name, id)
        alone == ProcessInOrder(forkFiles, run.world, account_name, folder_name,
                                <<j>>, workers)
    IN  /\ files[meta_path] = alone[meta_path]
        /\ files[message_path] = alone[message_path]
        /\ MessageReadCall(account_name, folder_name, id) \in log.calls
              <=> (workers[j].plan.meta = "ok" /\ NeedsFetch(forkFiles, message_path))

MetaFailureConfined ==
    /\ \A i \in MetaFailed : BodyStepSkipped(i)
    /\ (AllWorkersDone /\ MetaFailed # {}) =>
          \A j \in DOMAIN workers \ MetaFailed : ProcessedAsAlone(j)

\* C16 as stated, for any fetched envelope list.
C16_Original == run.pc = "workers" => MetaFailureConfined

\* C16 amended: in a folder whose fetched envelope list has distinct ids, a
\* failed metadata write skips the body step of that id, and every sibling has
\* its metadata and body written, fetched or skipped as cached as if the
\* failure had not occurred.
C16_MetaFailureSkipsOnlyItsBody ==
    (run.pc = "workers" /\ DistinctIds(run.envelopes)) => MetaFailureConfined

\* C16 witness: of the two envelopes of home/INBOX the metadata write of "1"
\* failed; "2" has its metadata and its fetched body, "1" has no body.
C16_Witness ==
    /\ run.pc = "workers"
    /\ AllWorkersDone
    /\ account_name = "home" /\ folder_name = "INBOX"
    /\ DistinctIds(run.envelopes)
    /\ MetaFailed = {1}
    /\ ~Exists(files, MessagePath("home", "INBOX", "1"))
    /\ MessageReadCall("home", "INBOX", "2") \in log.calls
    /\ Exists(files, MetaPath("home", "INBOX", "2"))
    /\ Exists(files, MessagePath("home", "INBOX", "2"))

\* The pass over a folder has ended in this run, its list had distinct ids and
\* none of its metadata writes failed.
CleanPass(a, f) ==
    LET fetched == EnvelopeList(run.world, a, f)
    IN  /\ <<a, f, Len(fetched)>> \in log.completed
        /\ DistinctIds(fetched)
        /\ \A i \in Ids : <<"meta", MetaPath(a, f, i)>> \notin log.warnings

\* C17: after such a pass envelopes/<account>/<folder>.json holds the fetched
\* list and every envelope of it has a metadata file holding the same record.
C17_SnapshotAgreesWithMetadata ==
    \A a \in Accounts, f \in Folders :
        CleanPass(a, f) =>
            LET fetched == EnvelopeList(run.world, a, f)
            IN  /\ files[EnvelopesPath(a, f)] = Some(File(fetched))
                /\ \A k \in DOMAIN fetched :
                      files[MetaPath(a, f, fetched[k].id)] = Some(File(fetched[k]))

\* C17 witness: the pass over home/INBOX with its two envelopes has ended
\* although the body fetch of one of them failed.
C17_Witness ==
    /\ run.world = "w1"
    /\ CleanPass("home", "INBOX")
    /\ log.warnings \cap BodyFetchWarnings("command") # {}
    /\ Len(Unwrap(files[EnvelopesPath("home", "INBOX")]).data) = 2
    /\ files[MetaPath("home", "INBOX", "2")] = Some(File(Envelope("2", "new", None)))

\* The envelope-list fetch of the folder has failed in this run.
EnvelopeListFetchFailed(a, f) ==
    \E kind \in JsonOutcomes \ {"ok"} : <<"messages", a, f, kind>> \in log.warnings

\* The snapshot, metadata and message files of one folder.
FolderPaths(a, f) ==
    {EnvelopesPath(a, f)}
    \cup {MetaPath(a, f, i) : i \in Ids}
    \cup {MessagePath(a, f, i) : i \in Ids}

\* C18: a folder whose envelope-list fetch failed gets no `message read`
\* invocation and no write, its files stay as the run found them, and a run
\* that ends Ok has gone on to every other folder of the account.
C18_EnvelopeListFailureConfined ==
    \A a \in Accounts, f \in Folders :
        EnvelopeListFetchFailed(a, f) =>
            /\ \A i \in Ids : MessageReadCall(a, f, i) \notin log.calls
            /\ \A p \in FolderPaths(a, f) : p \notin log.writes /\ files[p] = files0[p]
            /\ (run.pc = "done" /\ run.result.tag = "Ok" /\ ~FolderPinned(run.args)) =>
                  \A g \in Range(FolderList(run.world, a)) :
                      EnvelopeListCall(a, g) \in log.calls

\* C18 witness: the envelope-list fetch of home/INBOX failed in a sync over a
\* cache that held the folder; the sync went on to home/Sent and ended Ok.
C18_Witness ==
    /\ EnvelopeListFetchFailed("home", "INBOX")
    /\ run.pc = "done"
    /\ run.result.tag = "Ok"
    /\ Exists(files0, EnvelopesPath("home", "INBOX"))
    /\ Exists(files0, MessagePath("home", "INBOX", "1"))
    /\ EnvelopeListCall("home", "Sent") \in log.obtained
    /\ \A p \in FolderPaths("home", "INBOX") : files[p] = files0[p]

\* Every worker of the folder has finished, or its envelope-list fetch failed.
FolderFinished(a, f) ==
    \/ EnvelopeListFetchFailed(a, f)
    \/ <<a, f, Len(EnvelopeList(run.world, a, f))>> \in log.completed

\* Every folder of the account is finished, or its folder-list fetch failed.
AccountFinished(a) ==
    IF FolderPinned(run.args)
    THEN FolderFinished(a, Unwrap(run.args.folder))
    ELSE \/ \E kind \in JsonOutcomes \ {"ok"} : <<"folders", a, kind>> \in log.warnings
         \/ /\ FolderListCall(a) \in log.obtained
            /\ \A g \in Range(FolderList(run.world, a)) : FolderFinished(a, g)

NoWorkerRunning == \A i \in DOMAIN workers : workers[i].pc = "done"

EarlierAccountsFinished == \A j \in 1..(run.ai - 1) : AccountFinished(run.account_names[j])

EarlierFoldersFinished ==
    \A k \in 1..(run.fi - 1) : FolderFinished(account_name, run.folder_names[k])

\* C19: the folder-list fetch of an account starts when every earlier account
\* of the list is finished; the envelope-list fetch of a folder starts when
\* every earlier folder of the account, with all its workers, is finished; the
\* folders and accounts are taken in list order; and `message read` is invoked
\* only for the one folder whose workers are running.
C19_SequentialOuterLoops ==
    /\ [](~NoWorkerRunning => run.pc = "workers")
    /\ [][/\ \A a \in Accounts :
                FolderListCall(a) \in log'.calls \ log.calls =>
                    /\ NoWorkerRunning
                    /\ a = account_name
                    /\ EarlierAccountsFinished
          /\ \A a \in Accounts, f \in Folders :
                EnvelopeListCall(a, f) \in log'.calls \ log.calls =>
                    /\ NoWorkerRunning
                    /\ a = account_name /\ f = folder_name
                    /\ EarlierAccountsFinished
                    /\ EarlierFoldersFinished
          /\ \A a \in Accounts, f \in Folders, i \in Ids :
                MessageReadCall(a, f, i) \in log'.calls \ log.calls =>
                    /\ run.pc = "workers"
                    /\ a = account_name /\ f = folder_name
                    /\ EnvelopeListCall(a, f) \in log.obtained
                    /\ ~FolderFinished(a, f)]_vars

\* C19 witness: the workers of home/Sent are running; the account before and
\* the folder before are finished, workers included.
C19_Witness ==
    /\ run.pc = "workers"
    /\ ~NoWorkerRunning
    /\ run.account_names = <<"work", "home">>
    /\ account_name = "home" /\ folder_name = "Sent"
    /\ <<"work", "INBOX", 1>> \in log.completed
    /\ <<"home", "INBOX", 2>> \in log.completed
    /\ EarlierAccountsFinished
    /\ EarlierFoldersFinished

\* No step removes a metadata or message file.
NothingRemoved ==
    \A a \in Accounts, f \in Folders, i \in Ids :
        /\ Exists(files, MetaPath(a, f, i)) => Exists(files', MetaPath(a, f, i))
        /\ Exists(files, MessagePath(a, f, i)) => Exists(files', MessagePath(a, f, i))

\* The metadata file of id i lingers: the snapshot of its folder does not
\* list the id.
Lingers(a, f, i) ==
    /\ Exists(files, MetaPath(a, f, i))
    /\ Exists(files, EnvelopesPath(a, f))
    /\ i \notin SnapshotIds(a, f)

\* list_envelopes, in whatever order the directory is read, returns the
\* envelope with id i.
ListingReturns(a, f, i) ==
    LET dir == MetaDirOf(files, a, f)
    IN  \A order \in Orders(dir.entries) :
            LET listed == ListCachedEnvelopes(dir, order)
            IN  /\ listed.tag = "Ok"
                /\ \E k \in DOMAIN listed.envelopes : listed.envelopes[k].id = i

AllMetadataParses(a, f) ==
    \A j \in Ids :
        Exists(files, MetaPath(a, f, j)) => Unwrap(files[MetaPath(a, f, j)]).whole

\* C20 as stated: nothing is ever removed, and after a sync list_envelopes
\* returns every lingering envelope.
C20_Original ==
    /\ [][NothingRemoved]_vars
    /\ [](run.pc = "done" =>
            \A a \in Accounts, f \in Folders, i \in Ids :
                Lingers(a, f, i) => ListingReturns(a, f, i))

\* C20 amended: nothing is ever removed, and after a sync list_envelopes
\* returns every lingering envelope of a folder all of whose metadata files
\* parse.
C20_StaleMetadataLingers ==
    /\ [][NothingRemoved]_vars
    /\ [](run.pc = "done" =>
            \A a \in Accounts, f \in Folders, i \in Ids :
                (Lingers(a, f, i) /\ AllMetadataParses(a, f)) => ListingReturns(a, f, i))

\* C20 witness: after a second sync the snapshot of home/INBOX lists the id
\* "2" only, the metadata and the body of "1" are still there, and
\* list_envelopes returns both envelopes.
C20_Witness ==
    /\ run.pc = "done"
    /\ run.result.tag = "Ok"
    /\ EnvelopesPath("home", "INBOX") \in log.writes
    /\ Lingers("home", "INBOX", "1")
    /\ SnapshotIds("home", "INBOX") = {"2"}
    /\ Exists(files, MessagePath("home", "INBOX", "1"))
    /\ AllMetadataParses("home", "INBOX")
    /\ ListingReturns("home", "INBOX", "1")
    /\ ListingReturns("home", "INBOX", "2")

\* The body fetch of the id failed, in this run and in the run before.
ReadFailed(warnings, a, f, i) ==
    \E kind \in RawOutcomes \ {"ok"} : <<"read", a, f, i, kind>> \in warnings

\* The envelope list of the folder, fetched in this run, contains the id and
\* the pass over it has ended.
ListedAndPassed(a, f, i) ==
    LET fetched == EnvelopeList(run.world, a, f)
    IN  /\ <<a, f, Len(fetched)>> \in log.completed
        /\ \E k \in DOMAIN fetched : fetched[k].id = i

\* C21 as stated: a failed body fetch leaves no body file, and the next sync
\* that lists the id fetches the body again.
C21_Original ==
    \A a \in Accounts, f \in Folders, i \in Ids :
        /\ ReadFailed(log.warnings, a, f, i) =>
              ~Exists(files, MessagePath(a, f, i))
        /\ (ReadFailed(log.before, a, f, i) /\ ListedAndPassed(a, f, i)) =>
              MessageReadCall(a, f, i) \in log.calls

\* C21 amended: when the list fetched has distinct ids, a failed body fetch
\* leaves no body file, and the next sync, when it finds no body file, lists
\* the id and writes its metadata, fetches the body again.
C21_FailedFetchNotCached ==
    \A a \in Accounts, f \in Folders, i \in Ids :
        /\ (/\ ReadFailed(log.warnings, a, f, i)
            /\ DistinctIds(EnvelopeList(run.world, a, f))) =>
              /\ ~Exists(files, MessagePath(a, f, i))
              /\ MessagePath(a, f, i) \notin log.writes
        /\ (/\ ReadFailed(log.before, a, f, i)
            /\ ~Exists(files0, MessagePath(a, f, i))
            /\ ListedAndPassed(a, f, i)
            /\ <<"meta", MetaPath(a, f, i)>> \notin log.warnings) =>
              MessageReadCall(a, f, i) \in log.calls

\* C21 witness: the body fetch of home/INBOX "1" failed in the sync before;
\* this sync found no body file, fetched it again and wrote it.
C21_Witness ==
    /\ ReadFailed(log.before, "home", "INBOX", "1")
    /\ run.world = "w1"
    /\ ListedAndPassed("home", "INBOX", "1")
    /\ ~Exists(files0, MessagePath("home", "INBOX", "1"))
    /\ MessageReadCall("home", "INBOX", "1") \in log.calls
    /\ Exists(files, MessagePath("home", "INBOX", "1"))

=============================================================================
